---------------------------- MODULE Spec2Model ----------------------------
(***************************************************************************)
(* A model of pulp_deb's content model and metadata codec:                 *)
(*   - BasePackage.filename / to822 / from822 (pulp_deb/app/models.py),    *)
(*   - PackageIndex / InstallerFileIndex main_artifact,                    *)
(*   - DebPublication and DebPublicationSerializer.validate.               *)
(*                                                                         *)
(* Python strings are sequences of one-character strings, so that slicing, *)
(* startswith, str.format and os.path.join are computed as Python computes *)
(* them.  An optional value is <<>> (None) or <<v>> (the value v).         *)
(***************************************************************************)
EXTENDS Naturals, Sequences, FiniteSets, TLC

VARIABLES
    rec,        \* the package record (Package or InstallerPackage) under test
    component,  \* the component argument of filename / to822
    fname,      \* frame of the last filename() call, None before the call
    stanza,     \* result of the last to822() call, None before the call
    wire,       \* an upstream control-file paragraph handed to from822
    decoded,    \* result of the last from822() call, None before the call
    idx,        \* a PackageIndex / InstallerFileIndex entity
    main,       \* result of the last main_artifact access, None before it
    data,       \* attrs handed to DebPublicationSerializer.validate
    validated,  \* result of the last validate() call, None before the call
    pubs        \* the DebPublication objects that exist

vars == <<rec, component, fname, stanza, wire, decoded, idx, main, data,
          validated, pubs>>

(***************************************************************************)
(* Bounds of the model.                                                    *)
(***************************************************************************)
MaxLen == 6             \* longest string drawn as a name or component
MaxArtifacts == 3       \* most artifacts an index entity owns
MaxPkgArtifacts == 2    \* most artifacts a package record owns
MaxPopulated == 2       \* most nullable fields populated (besides "all")
MaxPubs == 2            \* most DebPublication objects created

(***************************************************************************)
(* Optional values and Python string primitives.                           *)
(***************************************************************************)
None == <<>>
Some(v) == <<v>>
IsNone(o) == Len(o) = 0
Val(o) == o[1]

Min(a, b) == IF a <= b THEN a ELSE b

\* s.startswith(p)
StartsWith(s, p) == Len(s) >= Len(p) /\ SubSeq(s, 1, Len(p)) = p

\* s[0:n]: a slice never fails, it is cut at the end of s
SliceTo(s, n) == SubSeq(s, 1, Min(n, Len(s)))

\* s.endswith(p) for a one-character p
EndsWith(s, p) == Len(s) >= 1 /\ <<s[Len(s)]>> = p

Sep == <<"/">>
Lib == <<"l", "i", "b">>
Pool == <<"p", "o", "o", "l">>

\* One step of posixpath.join: an absolute segment discards what precedes
\* it; no separator is added after an empty path or a trailing separator.
PathJoinStep(path, b) ==
    IF StartsWith(b, Sep) THEN b
    ELSE IF Len(path) = 0 \/ EndsWith(path, Sep) THEN path \o b
    ELSE path \o Sep \o b

RECURSIVE PathJoinFrom(_, _, _)
PathJoinFrom(path, segs, i) ==
    IF i > Len(segs) THEN path
    ELSE PathJoinFrom(PathJoinStep(path, segs[i]), segs, i + 1)

\* A mis-implementation of os.path.join: "/".join(segments).
RECURSIVE PlainJoinFrom(_, _, _)
PlainJoinFrom(path, segs, i) ==
    IF i > Len(segs) THEN path
    ELSE PlainJoinFrom(path \o Sep \o segs[i], segs, i + 1)

PathJoin_Plain(segs) == PlainJoinFrom(segs[1], segs, 2)

\* os.path.join(a, *p)
PathJoin(segs) == PathJoinFrom(segs[1], segs, 2)

(***************************************************************************)
(* BasePackage: name, filename.                                            *)
(***************************************************************************)
SUFFIX(kind) ==
    IF kind = "Package" THEN <<"d", "e", "b">> ELSE <<"u", "d", "e", "b">>

\* "{}_{}_{}".format(self.package_name, self.version, self.architecture)
Name(self) ==
    Val(self.f["package_name"]) \o <<"_">> \o Val(self.f["version"])
        \o <<"_">> \o Val(self.f["architecture"])

\* A mis-implementation: only None falls back to the package name.
SourceName_NoneOnly(self) ==
    IF ~IsNone(self.f["source"]) THEN Val(self.f["source"])
    ELSE Val(self.f["package_name"])

\* self.source or self.package_name: None and "" are both falsy
SourceName(self) ==
    IF ~IsNone(self.f["source"]) /\ Len(Val(self.f["source"])) > 0
    THEN Val(self.f["source"])
    ELSE Val(self.f["package_name"])

LibPrefixLen == 4

\* A mis-implementation: the lib prefix is "lib" alone.
Prefix_Lib3(sourcename) ==
    IF StartsWith(sourcename, Lib) THEN Some(SliceTo(sourcename, 3))
    ELSE IF Len(sourcename) = 0 THEN None
    ELSE Some(<<sourcename[1]>>)

\* The prefix local of filename; None when sourcename[0] raises IndexError.
Prefix(sourcename) ==
    IF StartsWith(sourcename, Lib) THEN Some(SliceTo(sourcename, LibPrefixLen))
    ELSE IF Len(sourcename) = 0 THEN None
    ELSE Some(<<sourcename[1]>>)

\* The frame of a filename(component) call: its locals, the exception it
\* raised ("none" when it returned) and its return value.
Filename(self, comp) ==
    LET sourcename == SourceName(self)
        prefix == Prefix(sourcename)
    IN  IF IsNone(prefix)
        THEN [sourcename |-> sourcename, prefix |-> None,
              exc |-> "IndexError", ret |-> <<>>]
        ELSE [sourcename |-> sourcename, prefix |-> prefix, exc |-> "none",
              ret |-> PathJoin(<<Pool, comp, Val(prefix), sourcename,
                                 Name(self) \o <<".">> \o SUFFIX(self.kind)>>)]

(***************************************************************************)
(* The translation tables, in the order the source lists them: pairs       *)
(* <<internal field name, control-file field name>>.                       *)
(***************************************************************************)
Package_TRANSLATION_DICT ==
    << <<"package_name", "Package">>,
       <<"source", "Source">>,
       <<"version", "Version">>,
       <<"architecture", "Architecture">>,
       <<"section", "Section">>,
       <<"priority", "Priority">>,
       <<"origin", "Origin">>,
       <<"tag", "Tag">>,
       <<"bugs", "Bugs">>,
       <<"essential", "Essential">>,
       <<"build_essential", "Build_essential">>,
       <<"installed_size", "Installed_size">>,
       <<"maintainer", "Maintainer">>,
       <<"original_maintainer", "Original_Maintainer">>,
       <<"description", "Description">>,
       <<"description_md5", "Description_MD5">>,
       <<"homepage", "Homepage">>,
       <<"built_using", "Built_Using">>,
       <<"auto_built_package", "Auto_Built_Package">>,
       <<"multi_arch", "Multi_Arch">>,
       <<"breaks", "Breaks">>,
       <<"conflicts", "Conflicts">>,
       <<"depends", "Depends">>,
       <<"recommends", "Recommends">>,
       <<"suggests", "Suggests">>,
       <<"enhances", "Enhances">>,
       <<"pre_depends", "Pre_Depends">>,
       <<"provides", "Provides">>,
       <<"replaces", "Replaces">> >>

InstallerPackage_TRANSLATION_DICT ==
    << <<"package_name", "Package">>,
       <<"source", "Source">>,
       <<"version", "Version">>,
       <<"architecture", "Architecture">>,
       <<"section", "Section">>,
       <<"priority", "Priority">>,
       <<"origin", "Origin">>,
       <<"tag", "Tag">>,
       <<"bugs", "Bugs">>,
       <<"essential", "Essential">>,
       <<"build_essential", "Build_essential">>,
       <<"installed_size", "Installed_size">>,
       <<"maintainer", "Maintainer">>,
       <<"original_maintainer", "Original_Maintainer">>,
       <<"description", "Description">>,
       <<"description_md5", "Description_MD5">>,
       <<"homepage", "Homepage">>,
       <<"built_using", "Built_Using">>,
       <<"auto_built_package", "Auto_Built_Package">>,
       <<"multi_arch", "Multi_Arch">>,
       <<"breaks", "Breaks">>,
       <<"conflicts", "Conflicts">>,
       <<"depends", "Depends">>,
       <<"recommends", "Recommends">>,
       <<"suggests", "Suggests">>,
       <<"enhances", "Enhances">>,
       <<"pre_depends", "Pre_Depends">>,
       <<"provides", "Provides">>,
       <<"replaces", "Replaces">> >>

TRANSLATION_DICT(kind) ==
    IF kind = "Package" THEN Package_TRANSLATION_DICT
    ELSE InstallerPackage_TRANSLATION_DICT

\* The model fields the table names, and those declared with null=True.
Fields == {Package_TRANSLATION_DICT[i][1] : i \in 1..Len(Package_TRANSLATION_DICT)}
Mandatory == {"package_name", "version", "architecture", "maintainer", "description"}
Nullable == Fields \ Mandatory

(***************************************************************************)
(* deb822.Packages: an ordered dictionary whose keys compare              *)
(* case-insensitively (python-debian's Deb822Dict keeps keys as _strI).   *)
(* A dictionary is a sequence of <<key, value>> pairs in insertion order. *)
(***************************************************************************)
StrILower ==
    << <<"Package", "package">>,
       <<"Source", "source">>,
       <<"Version", "version">>,
       <<"Architecture", "architecture">>,
       <<"Section", "section">>,
       <<"Priority", "priority">>,
       <<"Origin", "origin">>,
       <<"Tag", "tag">>,
       <<"Bugs", "bugs">>,
       <<"Essential", "essential">>,
       <<"Build_essential", "build_essential">>,
       <<"Installed_size", "installed_size">>,
       <<"Maintainer", "maintainer">>,
       <<"Original_Maintainer", "original_maintainer">>,
       <<"Description", "description">>,
       <<"Description_MD5", "description_md5">>,
       <<"Homepage", "homepage">>,
       <<"Built_Using", "built_using">>,
       <<"Auto_Built_Package", "auto_built_package">>,
       <<"Multi_Arch", "multi_arch">>,
       <<"Breaks", "breaks">>,
       <<"Conflicts", "conflicts">>,
       <<"Depends", "depends">>,
       <<"Recommends", "recommends">>,
       <<"Suggests", "suggests">>,
       <<"Enhances", "enhances">>,
       <<"Pre_Depends", "pre_depends">>,
       <<"Provides", "provides">>,
       <<"Replaces", "replaces">>,
       <<"MD5sum", "md5sum">>,
       <<"SHA1", "sha1">>,
       <<"SHA256", "sha256">>,
       <<"Filename", "filename">>,
       <<"Pre-Depends", "pre-depends">>,
       <<"Installed-Size", "installed-size">>,
       <<"Multi-Arch", "multi-arch">>,
       <<"package", "package">>,
       <<"PACKAGE", "package">>,
       <<"pre_depends", "pre_depends">>,
       <<"Built-Using", "built-using">> >>

\* str.lower() of a field name
Lower(k) ==
    LET i == CHOOSE j \in 1..Len(StrILower) : StrILower[j][1] = k
    IN  StrILower[i][2]

\* key in d
HasKey(d, key) == \E i \in 1..Len(d) : Lower(d[i][1]) = Lower(key)

\* d[key], for a key that is in d
GetItem(d, key) ==
    LET i == CHOOSE j \in 1..Len(d) : Lower(d[j][1]) = Lower(key)
    IN  d[i][2]

\* d[key] = value: a present key keeps its place, a new one is appended
SetItem(d, key, value) ==
    IF HasKey(d, key)
    THEN [i \in 1..Len(d) |->
            IF Lower(d[i][1]) = Lower(key) THEN <<d[i][1], value>> ELSE d[i]]
    ELSE Append(d, <<key, value>>)

(***************************************************************************)
(* QuerySet.get(): the one matching row, DoesNotExist for none,            *)
(* MultipleObjectsReturned for several.  rows is a sequence (the same      *)
(* artifact may be attached twice), match the set of matching positions.   *)
(***************************************************************************)
QuerySetGet(match) ==
    IF Cardinality(match) = 1
    THEN [exc |-> "none", ret |-> CHOOSE i \in match : TRUE]
    ELSE IF Cardinality(match) = 0
    THEN [exc |-> "DoesNotExist", ret |-> 0]
    ELSE [exc |-> "MultipleObjectsReturned", ret |-> 0]

(***************************************************************************)
(* BasePackage.to822 and BasePackage.from822.                              *)
(***************************************************************************)
\* A mis-implementation of the table pass: a None field is written as an
\* empty placeholder.
RECURSIVE TablePass_Placeholder(_, _, _, _)
TablePass_Placeholder(self, table, i, ret) ==
    IF i > Len(table) THEN ret
    ELSE LET value == self.f[table[i][1]]
         IN  TablePass_Placeholder(self, table, i + 1,
                 SetItem(ret, table[i][2],
                         IF IsNone(value) THEN <<>> ELSE Val(value)))

\* The table pass of to822: every non-None field, in table order.
RECURSIVE TablePass(_, _, _, _)
TablePass(self, table, i, ret) ==
    IF i > Len(table) THEN ret
    ELSE LET value == self.f[table[i][1]]
         IN  TablePass(self, table, i + 1,
                       IF ~IsNone(value)
                       THEN SetItem(ret, table[i][2], Val(value))
                       ELSE ret)

\* The result of to822(component): the exception raised ("none" when it
\* returned) and the deb822 paragraph returned.
To822(self, comp) ==
    LET ret == TablePass(self, TRANSLATION_DICT(self.kind), 1, <<>>)
        got == QuerySetGet(1..Len(self.artifacts))
        file == Filename(self, comp)
    IN  IF got.exc # "none" THEN [exc |-> got.exc, ret |-> <<>>]
        ELSE IF file.exc # "none" THEN [exc |-> file.exc, ret |-> <<>>]
        ELSE LET artifact == self.artifacts[got.ret]
                 r1 == SetItem(ret, "MD5sum", artifact.md5)
                 r2 == SetItem(r1, "SHA1", artifact.sha1)
                 r3 == SetItem(r2, "SHA256", artifact.sha256)
             IN  [exc |-> "none", ret |-> SetItem(r3, "Filename", file.ret)]

\* The control-file name the table gives an internal name.
ControlName(table, k) ==
    LET i == CHOOSE j \in 1..Len(table) : table[j][1] = k
    IN  table[i][2]

\* A mis-implementation of from822: the result is keyed by the control-file
\* names ({v: package_dict[v] ...}).
From822_ControlKeys(kind, package_dict) ==
    LET table == TRANSLATION_DICT(kind)
        present == {table[i][2] : i \in
                      {j \in 1..Len(table) : HasKey(package_dict, table[j][2])}}
    IN  [v \in present |-> GetItem(package_dict, v)]

\* from822(package_dict): the table fields present in the paragraph.
From822(kind, package_dict) ==
    LET table == TRANSLATION_DICT(kind)
        present == {table[i][1] : i \in
                      {j \in 1..Len(table) : HasKey(package_dict, table[j][2])}}
    IN  [k \in present |-> GetItem(package_dict, ControlName(table, k))]

(***************************************************************************)
(* PackageIndex.main_artifact and InstallerFileIndex.main_artifact:        *)
(* self._artifacts.get(sha256=self.sha256).  An index entity is            *)
(* [kind, sha256, artifacts], artifacts the sequence of the sha256 digests *)
(* of the artifacts it owns; the result names the artifact by position.    *)
(***************************************************************************)
\* A mis-implementation: the first match (filter(...).first()), None when
\* there is none.
PackageIndex_main_artifact_First(self) ==
    LET match == {i \in 1..Len(self.artifacts) :
                    self.artifacts[i] = self.sha256}
    IN  IF match = {} THEN [exc |-> "none", ret |-> 0]
        ELSE [exc |-> "none",
              ret |-> CHOOSE i \in match : \A j \in match : i <= j]

PackageIndex_main_artifact(self) ==
    QuerySetGet({i \in 1..Len(self.artifacts) : self.artifacts[i] = self.sha256})

InstallerFileIndex_main_artifact(self) ==
    QuerySetGet({i \in 1..Len(self.artifacts) : self.artifacts[i] = self.sha256})

MainArtifact(self) ==
    IF self.kind = "PackageIndex" THEN PackageIndex_main_artifact(self)
    ELSE InstallerFileIndex_main_artifact(self)

(***************************************************************************)
(* DebPublicationSerializer and DebPublication.                            *)
(***************************************************************************)
\* simple = BooleanField(default=False); structured likewise: a flag the
\* request leaves out takes its default.  A request is a function from a
\* subset of {"simple", "structured"} to BOOLEAN.
SerializerDefault == [simple |-> FALSE, structured |-> FALSE]

ToInternalValue(request) ==
    [k \in {"simple", "structured"} |->
        IF k \in DOMAIN request THEN request[k] ELSE SerializerDefault[k]]

\* The inherited PublicationSerializer.validate hands back the attrs it was
\* given; the simple and structured flags are not its concern.
SuperValidate(attrs) == attrs

\* A mis-implementation: both modes are required (or instead of and).
Validate_Or(attrs) ==
    LET d == SuperValidate(attrs)
    IN  IF ~d["simple"] \/ ~d["structured"]
        THEN [exc |-> "ValidationError", ret |-> d]
        ELSE [exc |-> "none", ret |-> d]

\* A mis-implementation: the modes are not checked.
Validate_NoCheck(attrs) == [exc |-> "none", ret |-> SuperValidate(attrs)]

\* validate(data): the exception raised ("none" when it returned) and the
\* data returned.
Validate(attrs) ==
    LET d == SuperValidate(attrs)
    IN  IF ~d["simple"] /\ ~d["structured"]
        THEN [exc |-> "ValidationError", ret |-> d]
        ELSE [exc |-> "none", ret |-> d]

\* DebPublication(**kwargs): a flag not given takes the model's default.
ModelDefault == [simple |-> FALSE, structured |-> FALSE]

DebPublication(kwargs, origin) ==
    [simple |-> IF "simple" \in DOMAIN kwargs THEN kwargs["simple"]
                ELSE ModelDefault["simple"],
     structured |-> IF "structured" \in DOMAIN kwargs THEN kwargs["structured"]
                    ELSE ModelDefault["structured"],
     origin |-> origin]

(***************************************************************************)
(* The inputs the specifications draw from.                                *)
(***************************************************************************)
S_bash == <<"b", "a", "s", "h">>
S_libfoo == <<"l", "i", "b", "f", "o", "o">>
S_main == <<"m", "a", "i", "n">>
S_amd64 == <<"a", "m", "d", "6", "4">>
S_1_0 == <<"1", ".", "0">>
S_5_1 == <<"5", ".", "1">>
S_x == <<"x">>

\* Package and source names: empty, plain, the lib rule and its near
\* misses, and names that carry a path separator.
NameUniverse ==
    { <<>>, S_x, S_bash, S_libfoo, Lib, <<"l", "i">>, <<"L", "i", "b", "x">>,
      <<"/", "x">>, <<"x", "/">>, <<"l", "i", "b", "/", "x">>, <<"l", "i", "b", "f", "o", "o", "1">> }

ComponentUniverse ==
    { <<>>, S_main, <<"/", "m">>, <<"m", "/">>, <<"u", "p", "/", "m">>, <<"c", "o", "n", "t", "r", "i", "b">> }

Names == {n \in NameUniverse : Len(n) <= MaxLen}
Components == {c \in ComponentUniverse : Len(c) <= MaxLen}
Versions == {<<>>, S_1_0, S_5_1}
Architectures == {<<>>, S_amd64}
Kinds == {"Package", "InstallerPackage"}

\* An artifact of a package record, with the digests the blob store holds.
Digit == <<"1", "2", "3", "4", "5", "6", "7", "8", "9">>

Artifact(i) ==
    [md5 |-> <<"m", "d", "5", "-", Digit[i]>>,
     sha1 |-> <<"s", "h", "a", "1", "-", Digit[i]>>,
     sha256 |-> <<"s", "h", "a", "2", "5", "6", "-", Digit[i]>>]

Artifacts(n) == [i \in 1..n |-> Artifact(i)]

\* A record for filename(): the four fields it reads vary, the other
\* mandatory fields hold a value and the other nullable ones are None.
PathRecord(kind, source, package_name, version, architecture) ==
    [kind |-> kind,
     f |-> [k \in Fields |->
              CASE k = "source" -> source
                [] k = "package_name" -> Some(package_name)
                [] k = "version" -> Some(version)
                [] k = "architecture" -> Some(architecture)
                [] k \in Mandatory \ {"package_name", "version", "architecture"}
                     -> Some(S_x)
                [] OTHER -> None],
     artifacts |-> Artifacts(1)]

PathRecords ==
    { PathRecord(kind, source, package_name, version, architecture) :
        kind \in Kinds, source \in {None} \cup {Some(n) : n \in Names},
        package_name \in Names, version \in Versions,
        architecture \in Architectures }

\* The value a populated field holds: variant 1 is an ordinary value,
\* variant 2 the falsy value of the field's type ("", False, 0).
FieldValue(k, variant) ==
    CASE k \in {"essential", "build_essential"} -> (variant = 1)
      [] k = "installed_size" -> (IF variant = 1 THEN 1 ELSE 0)
      [] k = "source" -> (IF variant = 1 THEN S_libfoo ELSE <<>>)
      [] k = "version" -> S_1_0
      [] k = "architecture" -> S_amd64
      [] OTHER -> (IF variant = 1 THEN S_x ELSE <<>>)

Variants == {1, 2}

\* The sets of at most n nullable fields.
RECURSIVE UpTo(_)
UpTo(n) ==
    IF n = 0 THEN {{}}
    ELSE LET smaller == UpTo(n - 1)
         IN  smaller \cup {P \cup {k} : P \in smaller, k \in Nullable}

Populations == UpTo(MaxPopulated) \cup {Nullable}

CodecRecord(kind, populated, variant, package_name, n) ==
    [kind |-> kind,
     f |-> [k \in Fields |->
              IF k = "package_name" THEN Some(package_name)
              ELSE IF k \in Mandatory \cup populated
              THEN Some(FieldValue(k, variant))
              ELSE None],
     artifacts |-> Artifacts(n)]

CodecRecords ==
    { CodecRecord(kind, populated, variant, package_name, n) :
        kind \in Kinds, populated \in Populations, variant \in Variants,
        package_name \in {<<>>, S_bash}, n \in 0..MaxPkgArtifacts }

\* Upstream paragraphs: fields of a Debian Packages file, spelled as Debian
\* spells them, and two fields spelled as the table spells them.
WireUniverse ==
    << <<"package", S_bash>>,
       <<"Version", S_1_0>>,
       <<"Depends", S_x>>,
       <<"Pre-Depends", S_x>>,
       <<"Installed-Size", S_x>>,
       <<"Multi-Arch", S_x>>,
       <<"Pre_Depends", S_x>>,
       <<"Filename", S_x>>,
       <<"SHA256", S_x>> >>

WireKeys == {WireUniverse[i][1] : i \in 1..Len(WireUniverse)}

WireDict(keys) ==
    LET Chosen(p) == p[1] \in keys IN SelectSeq(WireUniverse, Chosen)

Digests == {"A", "B", "C"}

RECURSIVE SeqsUpTo(_, _)
SeqsUpTo(S, n) ==
    IF n = 0 THEN {<<>>}
    ELSE LET shorter == SeqsUpTo(S, n - 1)
         IN  shorter \cup {Append(q, d) : q \in shorter, d \in S}

IndexEntities ==
    { [kind |-> kind, sha256 |-> sha256, artifacts |-> artifacts] :
        kind \in {"PackageIndex", "InstallerFileIndex"}, sha256 \in Digests,
        artifacts \in SeqsUpTo(Digests, MaxArtifacts) }

\* Requests and keyword arguments: any of the two flags, given or left out.
FlagMaps ==
    UNION {[keys -> BOOLEAN] : keys \in SUBSET {"simple", "structured"}}

(***************************************************************************)
(* SpecPath: filename(component) applied to a record.                      *)
(***************************************************************************)
CallFilename ==
    /\ ~IsNone(rec)
    /\ IsNone(fname)
    /\ fname' = Some(Filename(Val(rec), component))
    /\ UNCHANGED <<rec, component, stanza, wire, decoded, idx, main, data,
                   validated, pubs>>

InitPath ==
    /\ rec \in {Some(r) : r \in PathRecords}
    /\ component \in Components
    /\ fname = None /\ stanza = None /\ wire = None /\ decoded = None
    /\ idx = None /\ main = None /\ data = None /\ validated = None
    /\ pubs = <<>>

NextPath == CallFilename

SpecPath == InitPath /\ [][NextPath]_vars

(***************************************************************************)
(* SpecCodec: to822 applied to a record and from822 applied to the         *)
(* paragraph it returned, or from822 applied to an upstream paragraph.     *)
(***************************************************************************)
CallTo822 ==
    /\ ~IsNone(rec)
    /\ IsNone(stanza)
    /\ stanza' = Some(To822(Val(rec), component))
    /\ UNCHANGED <<rec, component, fname, wire, decoded, idx, main, data,
                   validated, pubs>>

CallFrom822 ==
    /\ ~IsNone(stanza)
    /\ Val(stanza).exc = "none"
    /\ IsNone(decoded)
    /\ decoded' = Some(From822(Val(rec).kind, Val(stanza).ret))
    /\ UNCHANGED <<rec, component, fname, stanza, wire, idx, main, data,
                   validated, pubs>>

CallFrom822Wire ==
    /\ ~IsNone(wire)
    /\ IsNone(decoded)
    /\ decoded' = Some(From822(Val(wire).kind, Val(wire).dict))
    /\ UNCHANGED <<rec, component, fname, stanza, wire, idx, main, data,
                   validated, pubs>>

InitCodec ==
    /\ \/ /\ rec \in {Some(r) : r \in CodecRecords}
          /\ component \in {<<>>, S_main}
          /\ wire = None
       \/ /\ rec = None
          /\ component = <<>>
          /\ wire \in {Some([kind |-> kind, dict |-> WireDict(keys)]) :
                         kind \in Kinds, keys \in SUBSET WireKeys}
    /\ fname = None /\ stanza = None /\ decoded = None
    /\ idx = None /\ main = None /\ data = None /\ validated = None
    /\ pubs = <<>>

NextCodec == CallTo822 \/ CallFrom822 \/ CallFrom822Wire

SpecCodec == InitCodec /\ [][NextCodec]_vars

(***************************************************************************)
(* SpecIndex: main_artifact read on an index entity.                       *)
(***************************************************************************)
GetMainArtifact ==
    /\ ~IsNone(idx)
    /\ IsNone(main)
    /\ main' = Some(MainArtifact(Val(idx)))
    /\ UNCHANGED <<rec, component, fname, stanza, wire, decoded, idx, data,
                   validated, pubs>>

InitIndex ==
    /\ idx \in {Some(e) : e \in IndexEntities}
    /\ main = None
    /\ rec = None /\ component = <<>> /\ fname = None /\ stanza = None
    /\ wire = None /\ decoded = None /\ data = None /\ validated = None
    /\ pubs = <<>>

NextIndex == GetMainArtifact

SpecIndex == InitIndex /\ [][NextIndex]_vars

(***************************************************************************)
(* SpecPub: publication requests validated by the serializer and           *)
(* DebPublication objects created from validated data or directly.         *)
(***************************************************************************)
\* serializer.is_valid(): field defaults, then validate(attrs)
IsValid(request) ==
    /\ data' = Some(ToInternalValue(request))
    /\ validated' = Some(Validate(ToInternalValue(request)))
    /\ UNCHANGED <<rec, component, fname, stanza, wire, decoded, idx, main,
                   pubs>>

\* A DebPublication made from the data validate() returned.
SerializerCreate ==
    /\ ~IsNone(validated)
    /\ Val(validated).exc = "none"
    /\ Len(pubs) < MaxPubs
    /\ pubs' = Append(pubs, DebPublication(Val(validated).ret, "serializer"))
    /\ data' = None
    /\ validated' = None
    /\ UNCHANGED <<rec, component, fname, stanza, wire, decoded, idx, main>>

\* DebPublication(**kwargs) constructed directly.
ModelCreate(kwargs) ==
    /\ Len(pubs) < MaxPubs
    /\ pubs' = Append(pubs, DebPublication(kwargs, "model"))
    /\ UNCHANGED <<rec, component, fname, stanza, wire, decoded, idx, main,
                   data, validated>>

InitPub ==
    /\ data = None /\ validated = None /\ pubs = <<>>
    /\ rec = None /\ component = <<>> /\ fname = None /\ stanza = None
    /\ wire = None /\ decoded = None /\ idx = None /\ main = None

NextPub ==
    \/ \E request \in FlagMaps : IsValid(request)
    \/ SerializerCreate
    \/ \E kwargs \in FlagMaps : ModelCreate(kwargs)

SpecPub == InitPub /\ [][NextPub]_vars

(***************************************************************************)
(* The statements checked.  They are written against the state alone: the  *)
(* expected paths are plain concatenations and the expected dictionary     *)
(* entries are looked up by exact key.                                     *)
(***************************************************************************)
\* The source name as documented: source unless it is null.
DocSourceName(r) ==
    IF IsNone(r.f["source"]) THEN Val(r.f["package_name"])
    ELSE Val(r.f["source"])

\* The source name with an empty source treated like a null one.
FallbackSourceName(r) ==
    IF IsNone(r.f["source"]) \/ Val(r.f["source"]) = <<>>
    THEN Val(r.f["package_name"])
    ELSE Val(r.f["source"])

\* First four characters of a lib* name, first one character otherwise.
DocPrefix(s) ==
    IF Len(s) >= 3 /\ SubSeq(s, 1, 3) = <<"l", "i", "b">>
    THEN SubSeq(s, 1, IF Len(s) < 4 THEN Len(s) ELSE 4)
    ELSE SubSeq(s, 1, IF Len(s) < 1 THEN Len(s) ELSE 1)

\* <package_name>_<version>_<architecture>.<suffix>
DocFile(r) ==
    Val(r.f["package_name"]) \o <<"_">> \o Val(r.f["version"]) \o <<"_">>
        \o Val(r.f["architecture"]) \o <<".">>
        \o (IF r.kind = "InstallerPackage" THEN <<"u", "d", "e", "b">>
            ELSE <<"d", "e", "b">>)

\* pool/<component>/<prefix>/<source_name>/<file>
DocPath(comp, prefix, s, file) ==
    <<"p", "o", "o", "l", "/">> \o comp \o <<"/">> \o prefix \o <<"/">>
        \o s \o <<"/">> \o file

Begins(s, c) == Len(s) > 0 /\ s[1] = c
Ends(s, c) == Len(s) > 0 /\ s[Len(s)] = c

\* No segment begins with "/" and none of component, prefix and source name
\* ends with "/".
NoSeparatorAtEdge(comp, s, package_name) ==
    /\ ~Begins(comp, "/") /\ ~Ends(comp, "/")
    /\ ~Begins(s, "/") /\ ~Ends(s, "/")
    /\ ~Ends(DocPrefix(s), "/")
    /\ ~Begins(package_name, "/")

FilenameCalled == ~IsNone(rec) /\ ~IsNone(fname)

\* The inputs the pool-path claim covers: source name, package name,
\* version, architecture and component all non-empty.
NonEmptyInputs ==
    /\ DocSourceName(Val(rec)) # <<>>
    /\ Val(Val(rec).f["package_name"]) # <<>>
    /\ Val(Val(rec).f["version"]) # <<>>
    /\ Val(Val(rec).f["architecture"]) # <<>>
    /\ component # <<>>

\* C2 as stated: for every record with non-empty source name, package name,
\* version and architecture and every non-empty component, filename returns
\* exactly pool/<component>/<prefix>/<source_name>/<file>.
C2_PoolPath ==
    (FilenameCalled /\ NonEmptyInputs) =>
        /\ Val(fname).exc = "none"
        /\ Val(fname).ret =
             DocPath(component, DocPrefix(DocSourceName(Val(rec))),
                     DocSourceName(Val(rec)), DocFile(Val(rec)))

\* C2 amended: the same, for inputs in which no segment begins with "/" and
\* none of component, prefix and source name ends with "/".
C2_PoolPathNoSeparatorAtEdge ==
    (/\ FilenameCalled
     /\ NonEmptyInputs
     /\ NoSeparatorAtEdge(component, DocSourceName(Val(rec)),
                          Val(Val(rec).f["package_name"]))) =>
        /\ Val(fname).exc = "none"
        /\ Val(fname).ret =
             DocPath(component, DocPrefix(DocSourceName(Val(rec))),
                     DocSourceName(Val(rec)), DocFile(Val(rec)))

\* libfoo 1.0 amd64 in main gives pool/main/libf/libfoo/libfoo_1.0_amd64.deb
C2_Witness ==
    /\ FilenameCalled
    /\ Val(rec).kind = "Package"
    /\ Val(rec).f["source"] = Some(S_libfoo)
    /\ Val(rec).f["package_name"] = Some(S_libfoo)
    /\ Val(rec).f["version"] = Some(S_1_0)
    /\ component = S_main
    /\ Val(fname).ret = <<"p", "o", "o", "l", "/", "m", "a", "i", "n", "/", "l", "i", "b", "f", "/", "l", "i", "b", "f", "o", "o", "/", "l", "i", "b", "f", "o", "o", "_", "1", ".", "0", "_", "a", "m", "d", "6", "4", ".", "d", "e", "b">>

\* C5 as stated: filename never fails, whatever the non-null source,
\* package name, version and architecture; an empty package name with a
\* null source gives a malformed path, not an error.
C5_FilenameTotal ==
    FilenameCalled => Val(fname).exc = "none"

\* C6 as stated: with the empty component the result is
\* pool//<prefix>/<source_name>/<file>, the empty segment kept.
C6_EmptyComponentKept ==
    (FilenameCalled /\ component = <<>> /\ Val(fname).exc = "none") =>
        Val(fname).ret =
            DocPath(<<>>, Val(Val(fname).prefix), Val(fname).sourcename,
                    DocFile(Val(rec)))

\* C6 amended: with the empty component the result is
\* pool/<prefix>/<source_name>/<file>, the empty segment adding no
\* separator (for names with no "/" at an edge of a segment).
C6_EmptyComponentDropped ==
    (/\ FilenameCalled
     /\ component = <<>>
     /\ Val(fname).exc = "none"
     /\ NoSeparatorAtEdge(<<>>, Val(fname).sourcename,
                          Val(Val(rec).f["package_name"]))) =>
        Val(fname).ret =
            <<"p", "o", "o", "l", "/">> \o Val(Val(fname).prefix) \o <<"/">>
                \o Val(fname).sourcename \o <<"/">> \o DocFile(Val(rec))

\* bash 5.1 amd64 with the empty component gives pool/b/bash/bash_5.1_amd64.deb
C6_Witness ==
    /\ FilenameCalled
    /\ component = <<>>
    /\ Val(rec).f["package_name"] = Some(S_bash)
    /\ Val(fname).ret = <<"p", "o", "o", "l", "/", "b", "/", "b", "a", "s", "h", "/", "b", "a", "s", "h", "_", "5", ".", "1", "_", "a", "m", "d", "6", "4", ".", "d", "e", "b">>

\* C7 as stated: the source name filename uses is source whenever source
\* is non-null, whatever its value, and package_name only when it is null.
C7_SourceWheneverNonNull ==
    FilenameCalled =>
        Val(fname).sourcename = DocSourceName(Val(rec))

\* C7 amended: the source name filename uses, for the prefix segment and
\* the source directory segment, is source when source is neither null nor
\* empty, and package_name otherwise.
C7_SourceFallback ==
    FilenameCalled =>
        LET s == FallbackSourceName(Val(rec))
            plain == /\ NoSeparatorAtEdge(component, s,
                                          Val(Val(rec).f["package_name"]))
                     /\ component # <<>>
        IN  /\ Val(fname).sourcename = s
            /\ (Val(fname).exc = "none") =>
                   (Val(fname).prefix = Some(DocPrefix(s)))
            /\ (Val(fname).exc = "none" /\ plain) =>
                   (Val(fname).ret =
                      DocPath(component, DocPrefix(s), s, DocFile(Val(rec))))

\* An empty source falls back to the package name, like a null one.
C7_Witness ==
    /\ FilenameCalled
    /\ Val(rec).f["source"] = Some(<<>>)
    /\ Val(rec).f["package_name"] = Some(S_bash)
    /\ component = S_main
    /\ Val(fname).sourcename = S_bash
    /\ Val(fname).prefix = Some(<<"b">>)

\* The entries of a paragraph under exactly this key.
Entries(d, key) == {i \in 1..Len(d) : d[i][1] = key}

To822Returned == ~IsNone(rec) /\ ~IsNone(stanza) /\ Val(stanza).exc = "none"

\* A paragraph returned by to822 has been decoded by from822.
RoundTripped == To822Returned /\ ~IsNone(decoded)

\* C1: from822 applied to the paragraph to822 returned holds every
\* non-null table field of the record with the record's value, holds no
\* table field that is null in the record, and holds none of the appended
\* MD5sum, SHA1, SHA256 and Filename fields.
C1_RoundTrip ==
    RoundTripped =>
        /\ \A k \in Fields :
             IF IsNone(Val(rec).f[k]) THEN k \notin DOMAIN Val(decoded)
             ELSE /\ k \in DOMAIN Val(decoded)
                  /\ Val(decoded)[k] = Val(Val(rec).f[k])
        /\ DOMAIN Val(decoded) \subseteq Fields
        /\ DOMAIN Val(decoded) \cap
             {"MD5sum", "SHA1", "SHA256", "Filename",
              "md5sum", "md5", "sha1", "sha256", "filename"} = {}

\* A record with every optional field populated has been round-tripped.
C1_Witness ==
    /\ RoundTripped
    /\ \A k \in Fields : ~IsNone(Val(rec).f[k])
    /\ Val(decoded)["pre_depends"] = S_x
    /\ Val(decoded)["source"] = S_libfoo
    /\ Entries(Val(stanza).ret, "Filename") # {}

\* C8: the paragraph to822 returns holds a table field's control name if
\* and only if the record's field is non-null, once, with the field's
\* value; a null field is never present with an empty value.
C8_FieldOmission ==
    To822Returned =>
        \A i \in 1..Len(TRANSLATION_DICT(Val(rec).kind)) :
            LET pair == TRANSLATION_DICT(Val(rec).kind)[i]
                value == Val(rec).f[pair[1]]
                at == Entries(Val(stanza).ret, pair[2])
            IN  IF IsNone(value) THEN at = {}
                ELSE /\ Cardinality(at) = 1
                     /\ \A j \in at : Val(stanza).ret[j][2] = Val(value)

\* A record with a null field, a non-null one and an empty non-null one
\* has been encoded.
C8_Witness ==
    /\ To822Returned
    /\ IsNone(Val(rec).f["depends"])
    /\ Val(rec).f["source"] = Some(<<>>)
    /\ Entries(Val(stanza).ret, "Depends") = {}
    /\ Entries(Val(stanza).ret, "Source") # {}
    /\ Entries(Val(stanza).ret, "Package") # {}

\* C9 as stated: the control-file names are the hyphenated Debian names:
\* encoding a record with non-null pre_depends gives a field named
\* "Pre-Depends", and decoding a paragraph that holds "Pre-Depends" gives
\* pre_depends (package_name goes to and from "Package").
C9_HyphenatedNames ==
    /\ To822Returned =>
         /\ Entries(Val(stanza).ret, "Package") # {}
         /\ ~IsNone(Val(rec).f["pre_depends"]) =>
                Entries(Val(stanza).ret, "Pre-Depends") # {}
    /\ (~IsNone(wire) /\ ~IsNone(decoded)) =>
         /\ Entries(Val(wire).dict, "package") # {} =>
                "package_name" \in DOMAIN Val(decoded)
         /\ Entries(Val(wire).dict, "Pre-Depends") # {} =>
                "pre_depends" \in DOMAIN Val(decoded)

MainArtifactRead == ~IsNone(idx) /\ ~IsNone(main)

\* The positions of the owned artifacts whose digest is the stored sha256.
Matching == {i \in 1..Len(Val(idx).artifacts) :
               Val(idx).artifacts[i] = Val(idx).sha256}

\* C4: main_artifact returns the owned artifact whose sha256 is the
\* entity's stored sha256 when exactly one matches, and fails when none or
\* several match.
C4_MainArtifactUnique ==
    MainArtifactRead =>
        IF Cardinality(Matching) = 1
        THEN Val(main).exc = "none" /\ Val(main).ret \in Matching
        ELSE Val(main).exc # "none"

\* A PackageIndex owning artifacts with digests A, B, C and stored sha256 B
\* resolves to the artifact with digest B.
C4_Witness ==
    /\ MainArtifactRead
    /\ Val(idx).kind = "PackageIndex"
    /\ Val(idx).artifacts = <<"A", "B", "C">>
    /\ Val(idx).sha256 = "B"
    /\ Val(main) = [exc |-> "none", ret |-> 2]

ValidateCalled == ~IsNone(data) /\ ~IsNone(validated)

\* C3: validate rejects with a validation error exactly when simple and
\* structured are both false, and otherwise returns the data with both
\* flags unchanged.
C3_ModeValidation ==
    ValidateCalled =>
        IF ~Val(data)["simple"] /\ ~Val(data)["structured"]
        THEN Val(validated).exc = "ValidationError"
        ELSE /\ Val(validated).exc = "none"
             /\ Val(validated).ret["simple"] = Val(data)["simple"]
             /\ Val(validated).ret["structured"] = Val(data)["structured"]

\* A request with both modes selected has been accepted.
C3_Witness ==
    /\ ValidateCalled
    /\ Val(data)["simple"] /\ Val(data)["structured"]
    /\ Val(validated).exc = "none"

\* C10 as stated: every DebPublication that exists, however it was
\* created, has simple or structured true.
C10_EveryPublication ==
    \A i \in 1..Len(pubs) : pubs[i].simple \/ pubs[i].structured

\* C10 amended: every DebPublication created from data the serializer
\* validated has simple or structured true.
C10_SerializerPublications ==
    \A i \in 1..Len(pubs) :
        pubs[i].origin = "serializer" =>
            pubs[i].simple \/ pubs[i].structured

\* A publication created through the serializer exists beside one
\* constructed with the model's defaults.
C10_Witness ==
    \E i, j \in 1..Len(pubs) :
        /\ pubs[i].origin = "serializer"
        /\ pubs[i].structured /\ ~pubs[i].simple
        /\ pubs[j].origin = "model"
        /\ ~pubs[j].simple /\ ~pubs[j].structured

=============================================================================
